---- MODULE Spec2Model ----
(***************************************************************************)
(* The products resource of product-api: the route table built by          *)
(* src/routers/productRouter.js, dispatched the way express.Router         *)
(* dispatches it, in front of the request validator and the product        *)
(* controller (both imported by the router; their behaviour is taken from  *)
(* the specification's sections 3, 4.2, 4.3 and 7).                        *)
(***************************************************************************)
EXTENDS Integers, Sequences, FiniteSets, TLC

VARIABLES
    slot,      \* per client connection: the request in flight and its response
    store,     \* the persisted Products, a set of records
    nextId,    \* the id the store assigns to the next created Product
    fresh,     \* history: the Product the last create returned, until the next write
    deleted    \* history: the ids a DELETE request was answered 200 for

vars == <<slot, store, nextId, fresh, deleted>>

\* The store hands out the ids 1..MaxId; creates stop being accepted after that.
MaxId == 2

Clients == {"c1", "c2"}
Serial == {"c1"}

Null == "null"

(***************************************************************************)
(* Text.  A path segment is the sequence of its characters, so that case   *)
(* folding and the decimal spelling of an id are computed, not looked up.  *)
(***************************************************************************)
UpperLetters ==
    <<"A", "B", "C", "D", "E", "F", "G", "H", "I", "J", "K", "L", "M",
      "N", "O", "P", "Q", "R", "S", "T", "U", "V", "W", "X", "Y", "Z">>

LowerLetters ==
    <<"a", "b", "c", "d", "e", "f", "g", "h", "i", "j", "k", "l", "m",
      "n", "o", "p", "q", "r", "s", "t", "u", "v", "w", "x", "y", "z">>

\* Each letter A-Z with its lower-case letter.
Fold ==
    [u \in {UpperLetters[i] : i \in 1..Len(UpperLetters)} |->
        LowerLetters[CHOOSE i \in 1..Len(UpperLetters) : UpperLetters[i] = u]]

LowerChar(ch) == IF ch \in DOMAIN Fold THEN Fold[ch] ELSE ch

\* The segment with every letter A-Z replaced by its lower-case letter.
Lower(seg) == [i \in 1..Len(seg) |-> LowerChar(seg[i])]

\* The decimal spelling of a natural number, as a segment.
RECURSIVE Digits(_)
Digits(n) ==
    IF n < 10 THEN <<ToString(n)>> ELSE Digits(n \div 10) \o <<ToString(n % 10)>>

SegProducts == <<"p", "r", "o", "d", "u", "c", "t", "s">>
SegMixed == <<"p", "R", "o", "D", "u", "C", "t", "S">>
SegUsers == <<"u", "s", "e", "r", "s">>
SegReviews == <<"r", "e", "v", "i", "e", "w", "s">>
SegId == <<":", "i", "d">>
SegEmpty == <<>>

NoId == <<"u", "n", "d", "e", "f", "i", "n", "e", "d">>

(***************************************************************************)
(* Requests.  A path is its sequence of segments; a trailing slash is a    *)
(* final empty segment.  A body is the JSON object sent, a record over the *)
(* keys present.                                                           *)
(***************************************************************************)
Methods == {"GET", "POST", "PUT", "DELETE", "HEAD", "PATCH"}
BodyMethods == {"POST", "PUT"}

IdSegs == {Digits(i) : i \in 1..MaxId}

Paths ==
    {<<SegProducts>>, <<SegProducts, SegEmpty>>, <<SegMixed>>, <<SegUsers>>,
     <<SegProducts, Digits(1), SegReviews>>}
        \cup {<<SegProducts, s>> : s \in IdSegs}

Chair == [name |-> "Chair", price |-> 50, color |-> "red", stock |-> 10]
Desk == [name |-> "Desk", price |-> 0, color |-> "oak", stock |-> 0]
NoName == [price |-> 50, color |-> "red", stock |-> 10]
EmptyName == [name |-> "", price |-> 50, color |-> "red", stock |-> 10]
NegPrice == [name |-> "Chair", price |-> -1, color |-> "red", stock |-> 10]
NegStock == [name |-> "Chair", price |-> 50, color |-> "red", stock |-> -1]
EmptyBody == [none |-> TRUE]

Bodies == {Chair, Desk, NoName, EmptyName, NegPrice, NegStock}

BodiesOf(m, bodies) == IF m \in BodyMethods THEN bodies ELSE {EmptyBody}

(***************************************************************************)
(* The route table, in registration order.                                 *)
(***************************************************************************)
Route(m, pattern, handlers) == [method |-> m, pattern |-> pattern, handlers |-> handlers]

\* Faulty route tables, each one slip away from the table of the source.
RoutesWithPatch ==
    << Route("GET", <<SegProducts>>, <<"getAllProducts">>),
       Route("GET", <<SegProducts, SegId>>, <<"getProductById">>),
       Route("POST", <<SegProducts, SegEmpty>>, <<"productReqValidator", "createProduct">>),
       Route("PUT", <<SegProducts, SegId>>, <<"productReqValidator", "updateProduct">>),
       Route("PATCH", <<SegProducts, SegId>>, <<"productReqValidator", "updateProduct">>),
       Route("DELETE", <<SegProducts, SegId>>, <<"deleteProduct">>) >>

RoutesPostUnvalidated ==
    << Route("GET", <<SegProducts>>, <<"getAllProducts">>),
       Route("GET", <<SegProducts, SegId>>, <<"getProductById">>),
       Route("POST", <<SegProducts, SegEmpty>>, <<"createProduct">>),
       Route("PUT", <<SegProducts, SegId>>, <<"productReqValidator", "updateProduct">>),
       Route("DELETE", <<SegProducts, SegId>>, <<"deleteProduct">>) >>

RoutesPutUnvalidated ==
    << Route("GET", <<SegProducts>>, <<"getAllProducts">>),
       Route("GET", <<SegProducts, SegId>>, <<"getProductById">>),
       Route("POST", <<SegProducts, SegEmpty>>, <<"productReqValidator", "createProduct">>),
       Route("PUT", <<SegProducts, SegId>>, <<"updateProduct">>),
       Route("DELETE", <<SegProducts, SegId>>, <<"deleteProduct">>) >>

RoutesPutCreates ==
    << Route("GET", <<SegProducts>>, <<"getAllProducts">>),
       Route("GET", <<SegProducts, SegId>>, <<"getProductById">>),
       Route("POST", <<SegProducts, SegEmpty>>, <<"productReqValidator", "createProduct">>),
       Route("PUT", <<SegProducts, SegId>>, <<"productReqValidator", "createProduct">>),
       Route("DELETE", <<SegProducts, SegId>>, <<"deleteProduct">>) >>

RoutesPutDeletes ==
    << Route("GET", <<SegProducts>>, <<"getAllProducts">>),
       Route("GET", <<SegProducts, SegId>>, <<"getProductById">>),
       Route("POST", <<SegProducts, SegEmpty>>, <<"productReqValidator", "createProduct">>),
       Route("PUT", <<SegProducts, SegId>>, <<"productReqValidator", "deleteProduct">>),
       Route("DELETE", <<SegProducts, SegId>>, <<"deleteProduct">>) >>

RoutesGetByIdLists ==
    << Route("GET", <<SegProducts>>, <<"getAllProducts">>),
       Route("GET", <<SegProducts, SegId>>, <<"getAllProducts">>),
       Route("POST", <<SegProducts, SegEmpty>>, <<"productReqValidator", "createProduct">>),
       Route("PUT", <<SegProducts, SegId>>, <<"productReqValidator", "updateProduct">>),
       Route("DELETE", <<SegProducts, SegId>>, <<"deleteProduct">>) >>

RoutesListGetsById ==
    << Route("GET", <<SegProducts>>, <<"getProductById">>),
       Route("GET", <<SegProducts, SegId>>, <<"getProductById">>),
       Route("POST", <<SegProducts, SegEmpty>>, <<"productReqValidator", "createProduct">>),
       Route("PUT", <<SegProducts, SegId>>, <<"productReqValidator", "updateProduct">>),
       Route("DELETE", <<SegProducts, SegId>>, <<"deleteProduct">>) >>

RoutesDeleteGets ==
    << Route("GET", <<SegProducts>>, <<"getAllProducts">>),
       Route("GET", <<SegProducts, SegId>>, <<"getProductById">>),
       Route("POST", <<SegProducts, SegEmpty>>, <<"productReqValidator", "createProduct">>),
       Route("PUT", <<SegProducts, SegId>>, <<"productReqValidator", "updateProduct">>),
       Route("DELETE", <<SegProducts, SegId>>, <<"getProductById">>) >>

RoutesDeleteValidated ==
    << Route("GET", <<SegProducts>>, <<"getAllProducts">>),
       Route("GET", <<SegProducts, SegId>>, <<"getProductById">>),
       Route("POST", <<SegProducts, SegEmpty>>, <<"productReqValidator", "createProduct">>),
       Route("PUT", <<SegProducts, SegId>>, <<"productReqValidator", "updateProduct">>),
       Route("DELETE", <<SegProducts, SegId>>, <<"productReqValidator", "deleteProduct">>) >>

Routes ==
    << Route("GET", <<SegProducts>>, <<"getAllProducts">>),
       Route("GET", <<SegProducts, SegId>>, <<"getProductById">>),
       Route("POST", <<SegProducts, SegEmpty>>, <<"productReqValidator", "createProduct">>),
       Route("PUT", <<SegProducts, SegId>>, <<"productReqValidator", "updateProduct">>),
       Route("DELETE", <<SegProducts, SegId>>, <<"deleteProduct">>) >>

Controllers ==
    {"getAllProducts", "getProductById", "createProduct", "updateProduct", "deleteProduct"}

\* Non-strict routing: one trailing slash is optional in pattern and path alike.
StripSlash(p) ==
    IF Len(p) > 0 /\ p[Len(p)] = SegEmpty THEN SubSeq(p, 1, Len(p) - 1) ELSE p

\* A pattern segment that starts with a colon binds a parameter.
IsParam(seg) == Len(seg) > 0 /\ seg[1] = ":"

PathMatch(pattern, path) ==
    LET pt == StripSlash(pattern)
        ph == StripSlash(path)
    IN  /\ Len(pt) = Len(ph)
        /\ \A i \in 1..Len(pt) :
              \* caseSensitive is off: literals are compared with case folded
              IF IsParam(pt[i]) THEN ph[i] # SegEmpty ELSE Lower(ph[i]) = Lower(pt[i])

\* A route answers its own method, and a GET route answers HEAD as well.
HandlesMethod(route, m) ==
    \/ route.method = m
    \/ m = "HEAD" /\ route.method = "GET"

Handles(route, m, path) == HandlesMethod(route, m) /\ PathMatch(route.pattern, path)

Matching(m, path) == {i \in 1..Len(Routes) : Handles(Routes[i], m, path)}

RECURSIVE ChainFrom(_, _, _)
ChainFrom(i, m, path) ==
    IF i > Len(Routes) THEN <<>>
    ELSE (IF Handles(Routes[i], m, path) THEN Routes[i].handlers ELSE <<>>)
            \o ChainFrom(i + 1, m, path)

\* The handlers a request runs through, in order, until one of them answers.
Chain(m, path) == ChainFrom(1, m, path)

\* req.params.id as the matched route's pattern binds it.
IdParam(m, path) ==
    LET ms == Matching(m, path)
    IN  IF ms = {} THEN NoId
        ELSE LET r == Routes[CHOOSE i \in ms : \A j \in ms : i <= j]
                 ps == {k \in 1..Len(StripSlash(r.pattern)) : IsParam(r.pattern[k])}
             IN  IF ps = {} THEN NoId ELSE path[CHOOSE k \in ps : TRUE]

(***************************************************************************)
(* Validator and controller.                                               *)
(***************************************************************************)
Has(b, f) == f \in DOMAIN b

Field(b, f) == IF Has(b, f) THEN b[f] ELSE Null

Valid(b) ==
    /\ Has(b, "name") /\ b.name # ""
    /\ Has(b, "price") /\ b.price >= 0
    /\ Has(b, "stock") /\ b.stock >= 0

Product(id, b) ==
    [id |-> id, name |-> Field(b, "name"), price |-> Field(b, "price"),
     color |-> Field(b, "color"), stock |-> Field(b, "stock")]

Ids(s) == {p.id : p \in s}

Found(s, idp) == {p \in s : Digits(p.id) = idp}

\* A store that numbers a new record by the count of records it holds.
AssignIdByCount == Cardinality(store) + 1

AssignId == nextId

Created(s, id, b) == s \cup {Product(id, b)}

Updated(s, idp, b) == (s \ Found(s, idp)) \cup {Product(p.id, b) : p \in Found(s, idp)}

Removed(s, idp) == s \ Found(s, idp)

List(items) == [kind |-> "list", items |-> items]
One(items) == [kind |-> "product", items |-> items]
Message == [kind |-> "message", items |-> {}]

Idle ==
    [stage |-> "idle", method |-> "", path |-> <<>>, body |-> EmptyBody,
     handlers |-> <<>>, pos |-> 0, id |-> NoId,
     status |-> 0, result |-> Message, dbError |-> FALSE]

Init ==
    /\ slot = [c \in Clients |-> Idle]
    /\ store = {}
    /\ nextId = 1
    /\ fresh = {}
    /\ deleted = {}

PendingCreates ==
    Cardinality({c \in Clients : slot[c].stage = "routed"
                                 /\ \E i \in 1..Len(slot[c].handlers) :
                                        i > slot[c].pos /\ slot[c].handlers[i] = "createProduct"})

\* The router takes a request and fixes its handler chain.
Receive(c, methods, paths, bodies) ==
    \E m \in methods, path \in paths :
      \E b \in BodiesOf(m, bodies) :
        LET hs == Chain(m, path) IN
        /\ slot[c].stage = "idle"
        /\ ("createProduct" \in {hs[i] : i \in 1..Len(hs)})
              => nextId + PendingCreates <= MaxId
        /\ slot' = [slot EXCEPT ![c] =
                      [Idle EXCEPT !.stage = IF hs = <<>> THEN "unhandled" ELSE "routed",
                                   !.method = m, !.path = path, !.body = b,
                                   !.handlers = hs, !.id = IdParam(m, path)]]
        /\ UNCHANGED <<store, nextId, fresh, deleted>>

Ready(c, h) ==
    /\ slot[c].stage = "routed"
    /\ slot[c].pos < Len(slot[c].handlers)
    /\ slot[c].handlers[slot[c].pos + 1] = h

Answered(c, st, res, err) ==
    [slot EXCEPT ![c].stage = "responded", ![c].pos = @ + 1,
                 ![c].status = st, ![c].result = res, ![c].dbError = err]

\* next(): on to the following handler of the chain, if there is one.
Passed(c) ==
    [slot EXCEPT ![c].pos = @ + 1,
                 ![c].stage = IF slot[c].pos + 1 < Len(slot[c].handlers)
                              THEN "routed" ELSE "unhandled"]

NoteDeleted(c, st) ==
    IF slot[c].method = "DELETE" /\ st = 200 /\ slot[c].id \in IdSegs
    THEN deleted \cup {i \in 1..MaxId : Digits(i) = slot[c].id}
    ELSE deleted

ProductReqValidator(c) ==
    /\ Ready(c, "productReqValidator")
    /\ slot' = IF Valid(slot[c].body) THEN Passed(c)
               ELSE Answered(c, 400, Message, FALSE)
    /\ UNCHANGED <<store, nextId, fresh, deleted>>

GetAllProducts(c) ==
    /\ Ready(c, "getAllProducts")
    /\ \E err \in BOOLEAN :
         slot' = IF err THEN Answered(c, 500, Message, TRUE)
                 ELSE Answered(c, 200, List(store), FALSE)
    /\ UNCHANGED <<store, nextId, fresh, deleted>>

GetProductById(c) ==
    /\ Ready(c, "getProductById")
    /\ \E err \in BOOLEAN :
         LET hit == Found(store, slot[c].id)
             st == IF err THEN 500 ELSE IF hit = {} THEN 404 ELSE 200
         IN  /\ slot' = Answered(c, st, IF st = 200 THEN One(hit) ELSE Message, err)
             /\ deleted' = NoteDeleted(c, st)
    /\ UNCHANGED <<store, nextId, fresh>>

CreateProduct(c) ==
    /\ Ready(c, "createProduct")
    /\ nextId <= MaxId
    /\ \E err \in BOOLEAN :
         IF err
         THEN /\ slot' = Answered(c, 500, Message, TRUE)
              /\ UNCHANGED <<store, nextId, fresh, deleted>>
         ELSE LET id == AssignId IN
              /\ store' = Created(store, id, slot[c].body)
              /\ nextId' = nextId + 1
              /\ slot' = Answered(c, 201, One({Product(id, slot[c].body)}), FALSE)
              /\ fresh' = {Product(id, slot[c].body)}
              /\ deleted' = NoteDeleted(c, 201)

UpdateProduct(c) ==
    /\ Ready(c, "updateProduct")
    /\ \E err \in BOOLEAN :
         LET hit == Found(store, slot[c].id)
             st == IF err THEN 500 ELSE IF hit = {} THEN 404 ELSE 200
         IN  /\ store' = IF st = 200 THEN Updated(store, slot[c].id, slot[c].body) ELSE store
             /\ slot' = Answered(c, st,
                          IF st = 200
                          THEN One({Product(p.id, slot[c].body) : p \in hit})
                          ELSE Message, err)
             /\ deleted' = NoteDeleted(c, st)
             /\ fresh' = IF st = 200 THEN {} ELSE fresh
    /\ UNCHANGED nextId

DeleteProduct(c) ==
    /\ Ready(c, "deleteProduct")
    /\ \E err \in BOOLEAN :
         LET hit == Found(store, slot[c].id)
             st == IF err THEN 500 ELSE IF hit = {} THEN 404 ELSE 200
         IN  /\ store' = IF st = 200 THEN Removed(store, slot[c].id) ELSE store
             /\ slot' = Answered(c, st, Message, err)
             /\ deleted' = NoteDeleted(c, st)
             /\ fresh' = IF st = 200 THEN {} ELSE fresh
    /\ UNCHANGED nextId

\* The exchange is over; the connection takes the next request.
Complete(c) ==
    /\ slot[c].stage \in {"responded", "unhandled"}
    /\ slot' = [slot EXCEPT ![c] = Idle]
    /\ UNCHANGED <<store, nextId, fresh, deleted>>

Next ==
    \E c \in Serial :
        \/ Receive(c, Methods, Paths, Bodies)
        \/ ProductReqValidator(c)
        \/ GetAllProducts(c)
        \/ GetProductById(c)
        \/ CreateProduct(c)
        \/ UpdateProduct(c)
        \/ DeleteProduct(c)
        \/ Complete(c)

Spec == Init /\ [][Next]_vars

\* Two connections in flight at once, on the five bound endpoints.
ConcMethods == {"GET", "POST", "PUT", "DELETE"}
ConcPaths == {<<SegProducts>>} \cup {<<SegProducts, s>> : s \in IdSegs}
ConcBodies == {Chair, Desk}

NextConc ==
    \E c \in Clients :
        \/ Receive(c, ConcMethods, ConcPaths, ConcBodies)
        \/ ProductReqValidator(c)
        \/ GetAllProducts(c)
        \/ GetProductById(c)
        \/ CreateProduct(c)
        \/ UpdateProduct(c)
        \/ DeleteProduct(c)
        \/ Complete(c)

SpecConc == Init /\ [][NextConc]_vars

(***************************************************************************)
(* The properties.  They are stated on what a client sees, the request     *)
(* (method, path, body) and its answer, against the documented table of    *)
(* endpoints.  A path names an endpoint whatever the case of its literal   *)
(* segment and with or without a trailing slash.                           *)
(***************************************************************************)
IsProducts(seg) == Lower(seg) = SegProducts

IsCollection(path) ==
    /\ Len(path) \in {1, 2}
    /\ IsProducts(path[1])
    /\ Len(path) = 2 => path[2] = SegEmpty

IsItem(path) ==
    /\ Len(path) \in {2, 3}
    /\ IsProducts(path[1])
    /\ path[2] # SegEmpty
    /\ Len(path) = 3 => path[3] = SegEmpty

Endpoint(m, path) ==
    IF m = "GET" /\ IsCollection(path) THEN "list"
    ELSE IF m = "GET" /\ IsItem(path) THEN "get"
    ELSE IF m = "POST" /\ IsCollection(path) THEN "create"
    ELSE IF m = "PUT" /\ IsItem(path) THEN "update"
    ELSE IF m = "DELETE" /\ IsItem(path) THEN "delete"
    ELSE "none"

DocumentedChain(e) ==
    CASE e = "list" -> <<"getAllProducts">>
      [] e = "get" -> <<"getProductById">>
      [] e = "create" -> <<"productReqValidator", "createProduct">>
      [] e = "update" -> <<"productReqValidator", "updateProduct">>
      [] e = "delete" -> <<"deleteProduct">>
      [] OTHER -> <<>>

DocumentedStatuses(e) ==
    CASE e = "list" -> {200, 500}
      [] e = "get" -> {200, 404, 500}
      [] e = "create" -> {201, 400, 500}
      [] e = "update" -> {200, 400, 404, 500}
      [] e = "delete" -> {200, 404, 500}
      [] OTHER -> {}

EndpointOf(c) == Endpoint(slot[c].method, slot[c].path)

Invoked(c) == {slot[c].handlers[i] : i \in 1..slot[c].pos}

Rejectable(b) == ~Has(b, "name") \/ b.price < 0 \/ b.stock < 0

ValidPayload(b) == ~Rejectable(b) /\ b.name # ""

Absent(seg) == \A p \in store : Digits(p.id) # seg

\* This step answers the request of connection c.
Answers(c) == slot[c].stage = "routed" /\ slot'[c].stage = "responded"

SameFields(p, b) ==
    /\ p.name = b.name /\ p.price = b.price /\ p.color = b.color /\ p.stock = b.stock

\* C1 as stated: every request runs exactly the documented chain of its
\* method+path, at most one binding matches it, and a request outside the five
\* bindings reaches no controller.
C1_FiveBindingsOnly ==
    \A c \in Clients :
        slot[c].stage # "idle" =>
            /\ Cardinality(Matching(slot[c].method, slot[c].path)) <= 1
            /\ EndpointOf(c) # "none" => slot[c].handlers = DocumentedChain(EndpointOf(c))
            /\ EndpointOf(c) = "none" => Invoked(c) \cap Controllers = {}

\* C1 as amended: as above, except that a HEAD request on /products or
\* /products/:id runs the chain of the GET binding of that path; every other
\* request outside the five bindings is given no handler at all.
C1_FiveBindingsAndHead ==
    \A c \in Clients :
        slot[c].stage # "idle" =>
            LET m == IF slot[c].method = "HEAD" THEN "GET" ELSE slot[c].method
            IN  /\ Cardinality(Matching(slot[c].method, slot[c].path)) <= 1
                /\ slot[c].handlers = DocumentedChain(Endpoint(m, slot[c].path))

C1_Witness ==
    \E c \in Clients :
        /\ slot[c].method = "PATCH" /\ IsItem(slot[c].path)
        /\ slot[c].stage = "unhandled" /\ slot[c].pos = 0
        /\ store # {}

C2_Order ==
    \A c \in Clients :
        (slot[c].stage # "idle" /\ EndpointOf(c) \in {"create", "update"}) =>
            /\ slot[c].pos >= 1 => slot[c].handlers[1] = "productReqValidator"
            /\ Invoked(c) \cap Controllers # {} =>
                  /\ slot[c].pos = 2
                  /\ slot[c].handlers[1] = "productReqValidator"
                  /\ ~Rejectable(slot[c].body)
            /\ (Rejectable(slot[c].body) /\ slot[c].pos >= 1) =>
                  /\ slot[c].stage = "responded"
                  /\ slot[c].status = 400
                  /\ slot[c].pos = 1

C2_Frame ==
    \A c \in Clients :
        (/\ slot[c].stage = "routed"
         /\ EndpointOf(c) \in {"create", "update"}
         /\ Rejectable(slot[c].body)
         /\ slot'[c] # slot[c]) => store' = store

\* C2: on POST /products and PUT /products/:id the validator is the first
\* handler invoked and a controller is invoked only second and only for a
\* payload the validator lets through; a payload missing name or with a negative
\* price or stock is answered 400 by the validator, and handling it leaves the
\* store as it was.
C2_ValidatorFirst == []C2_Order /\ [][C2_Frame]_vars

C2_Witness ==
    \E c \in Clients :
        /\ EndpointOf(c) = "update" /\ ~Has(slot[c].body, "name")
        /\ slot[c].stage = "responded" /\ slot[c].status = 400
        /\ ~Absent(slot[c].path[2])

\* This step answers a get-by-id, a delete or an update with a valid payload.
AnswersById(c) ==
    /\ Answers(c)
    /\ EndpointOf(c) \in {"get", "update", "delete"}
    /\ EndpointOf(c) = "update" => ValidPayload(slot[c].body)

C3_Always404 ==
    \A c \in Clients :
        (AnswersById(c) /\ Absent(slot[c].path[2])) =>
            /\ store' = store
            /\ slot'[c].status = 404

\* C3 as stated: a get-by-id, an update with a valid payload or a delete of an
\* id the store does not hold is answered 404, never 500, and leaves the store
\* unchanged.
C3_AbsentNeverServerError == [][C3_Always404]_vars

C3_Step ==
    \A c \in Clients :
        (AnswersById(c) /\ Absent(slot[c].path[2])) =>
            /\ store' = store
            /\ slot'[c].status = IF slot'[c].dbError THEN 500 ELSE 404

\* C3 as amended: such a request leaves the store unchanged and is answered
\* 404 when the persistence layer works and 500 when the persistence layer
\* fails; it is never answered 200 or 201.
C3_AbsentIsNotFound == [][C3_Step]_vars

C3_Witness ==
    \E c \in Clients :
        /\ EndpointOf(c) = "update" /\ ValidPayload(slot[c].body)
        /\ slot[c].stage = "responded" /\ slot[c].status = 404
        /\ Absent(slot[c].path[2]) /\ store # {}

AnswersCreate(c) ==
    Answers(c) /\ EndpointOf(c) = "create" /\ ValidPayload(slot[c].body)

AnswersGetOfFresh(c) ==
    /\ Answers(c) /\ EndpointOf(c) = "get"
    /\ \E p \in fresh : slot[c].path[2] = Digits(p.id)

\* The answer is 201 with the payload's fields under an id the store did not hold.
CreatedAs(c) ==
    /\ slot'[c].status = 201
    /\ slot'[c].result.kind = "product"
    /\ \E p \in slot'[c].result.items :
          /\ slot'[c].result.items = {p}
          /\ SameFields(p, slot[c].body)
          /\ p.id \in Nat /\ p.id \notin Ids(store)
          /\ store' = store \cup {p}
          /\ fresh' = {p}

GotFresh(c) == slot'[c].status = 200 /\ slot'[c].result = One(fresh)

\* C4 as stated: every create of a valid payload P is answered 201 with P's
\* name, price, color and stock plus a store-assigned id, and every get-by-id of
\* that id issued next is answered 200 with that same Product.
C4_CreateAlways201 ==
    [][\A c \in Clients : /\ AnswersCreate(c) => CreatedAs(c)
                          /\ AnswersGetOfFresh(c) => GotFresh(c)]_vars

C4_Create ==
    \A c \in Clients :
        AnswersCreate(c) =>
            IF slot'[c].dbError
            THEN slot'[c].status = 500 /\ store' = store /\ fresh' = fresh
            ELSE CreatedAs(c)

C4_Get ==
    \A c \in Clients :
        AnswersGetOfFresh(c) =>
            /\ store' = store
            /\ IF slot'[c].dbError THEN slot'[c].status = 500 ELSE GotFresh(c)

\* C4 as amended: a create of a valid payload P is answered 201 with P's name,
\* price, color and stock plus an id no stored Product has, or 500 with the
\* store unchanged when the persistence layer fails; a get-by-id of a returned
\* id before any other write is answered 200 with that same Product, or 500
\* when the persistence layer fails.
C4_CreateThenGet == [][C4_Create /\ C4_Get]_vars

C4_Witness ==
    \E c \in Clients :
        /\ EndpointOf(c) = "get" /\ slot[c].stage = "responded"
        /\ slot[c].status = 200 /\ fresh # {} /\ slot[c].result = One(fresh)
        /\ Cardinality(store) = 2

WasDeleted(seg) == \E i \in deleted : seg = Digits(i)

\* C5 as stated: once a DELETE of an id was answered 200, every later
\* get-by-id, delete and (valid) update of that id is answered 404.
C5_DeletedAlways404 ==
    [][\A c \in Clients :
          (AnswersById(c) /\ WasDeleted(slot[c].path[2])) => slot'[c].status = 404]_vars

C5_Step ==
    \A c \in Clients :
        (AnswersById(c) /\ WasDeleted(slot[c].path[2])) =>
            /\ store' = store
            /\ slot'[c].status = IF slot'[c].dbError THEN 500 ELSE 404

\* C5 as amended: once a DELETE of an id was answered 200, the store never
\* holds that id again, and every later get-by-id, delete and (valid) update of
\* that id is answered 404, or 500 when the persistence layer fails; none is
\* answered 200.
C5_DeletedStaysGone == [](deleted \cap Ids(store) = {}) /\ [][C5_Step]_vars

C5_Witness ==
    \E c \in Clients :
        /\ EndpointOf(c) = "get" /\ slot[c].stage = "responded"
        /\ slot[c].status = 404
        /\ WasDeleted(slot[c].path[2])
        /\ store # {}

\* C6: every answer of one of the five endpoints is in the status set the
\* endpoint documents.
C6_DocumentedStatuses ==
    \A c \in Clients :
        (slot[c].stage = "responded" /\ EndpointOf(c) # "none") =>
            slot[c].status \in DocumentedStatuses(EndpointOf(c))

C6_Witness ==
    \E c \in Clients :
        /\ EndpointOf(c) = "delete" /\ slot[c].stage = "responded"
        /\ slot[c].status = 404 /\ store # {}

AnswersList(c) == Answers(c) /\ EndpointOf(c) = "list"

\* C7 as stated: GET /products is always answered 200 with exactly the
\* Products the store holds, the empty collection for an empty store, never
\* 404 and never an error.
C7_ListAlways200 ==
    [][\A c \in Clients :
          AnswersList(c) =>
              /\ store' = store
              /\ slot'[c].status = 200
              /\ slot'[c].result = List(store)]_vars

C7_Step ==
    \A c \in Clients :
        AnswersList(c) =>
            /\ store' = store
            /\ IF slot'[c].dbError
               THEN slot'[c].status = 500
               ELSE slot'[c].status = 200 /\ slot'[c].result = List(store)

\* C7 as amended: GET /products is answered 200 with exactly the Products the
\* store holds at that moment, the empty collection for an empty store, or 500
\* when the persistence layer fails; it is never answered 404.
C7_ListIsStore == [][C7_Step]_vars

C7_Witness ==
    \E c \in Clients :
        /\ EndpointOf(c) = "list" /\ slot[c].stage = "responded"
        /\ slot[c].status = 200 /\ slot[c].result = List({})
        /\ store = {} /\ deleted # {}

C8_Step ==
    \A c \in Clients :
        (Answers(c) /\ EndpointOf(c) = "update" /\ slot'[c].status = 200) =>
            /\ Ids(store') = Ids(store)
            /\ \E old \in store :
                  LET new == [id |-> old.id, name |-> slot[c].body.name,
                              price |-> slot[c].body.price,
                              color |-> slot[c].body.color,
                              stock |-> slot[c].body.stock]
                  IN  /\ Digits(old.id) = slot[c].path[2]
                      /\ store' = (store \ {old}) \cup {new}
                      /\ slot'[c].result = One({new})

\* C8: an update answered 200 keeps the set of stored ids, replaces the
\* Product of that id by one with the same id and the payload's name, price,
\* color and stock, and leaves every other Product as it was.
C8_UpdateInPlace == [][C8_Step]_vars

C8_Witness ==
    \E c \in Clients :
        /\ EndpointOf(c) = "update" /\ slot[c].stage = "responded"
        /\ slot[c].status = 200 /\ slot[c].result.items \subseteq store
        /\ Cardinality(store) = 2
        /\ \E p \in store : p \notin slot[c].result.items /\ p.name # slot[c].body.name

UniqueIds ==
    /\ \A p, q \in store : p.id = q.id => p = q
    /\ \A c, d \in Clients :
          (/\ c # d
           /\ slot[c].stage = "responded" /\ slot[c].status = 201
           /\ slot[d].stage = "responded" /\ slot[d].status = 201) =>
              Ids(slot[c].result.items) \cap Ids(slot[d].result.items) = {}

OneWrite ==
    store' # store =>
        \E c \in Clients :
            /\ Answers(c)
            /\ \A d \in Clients \ {c} : slot'[d] = slot[d]
            /\ \/ /\ EndpointOf(c) = "create"
                  /\ \E p \in store' : p.id \notin Ids(store) /\ store' = store \cup {p}
               \/ /\ EndpointOf(c) = "update"
                  /\ Ids(store') = Ids(store)
                  /\ \E old \in store, new \in store' :
                        /\ new.id = old.id
                        /\ store' \ {new} = store \ {old}
               \/ /\ EndpointOf(c) = "delete"
                  /\ \E p \in store : store' = store \ {p}

\* C9: with requests of two connections interleaved, no two stored Products
\* ever share an id, two creates are never answered with the same id, and every
\* change of the store is one request's single step: one Product added under an
\* unused id, one replaced under its own id, or one removed.
C9_AtomicUniqueIds == []UniqueIds /\ [][OneWrite]_vars

C9_Witness ==
    /\ \A c \in Clients :
          /\ EndpointOf(c) = "create" /\ slot[c].stage = "responded"
          /\ slot[c].status = 201
    /\ Cardinality(store) = 2

Constrained ==
    \A p \in store : p.name \notin {"", Null} /\ p.price >= 0 /\ p.stock >= 0

ReadsKeepFields ==
    \A c \in Clients :
        (Answers(c) /\ slot[c].method \in {"GET", "HEAD", "DELETE"}) =>
            store' \subseteq store

\* C10: every stored Product has a non-empty name and a price and a stock of
\* at least 0, and a get, a list or a delete never alters a stored Product
\* (a delete only removes one).
C10_StoreConstraints == []Constrained /\ [][ReadsKeepFields]_vars

C10_Witness ==
    \E c \in Clients :
        /\ EndpointOf(c) = "update" /\ slot[c].stage = "responded"
        /\ slot[c].status = 200
        /\ \E p \in store : p.price = 0 /\ p.stock = 0 /\ Digits(p.id) = slot[c].path[2]

====
